---- MODULE Spec2Model ----
(***************************************************************************)
(* Cymatic: the particle store, the integrator (animate) and the panel     *)
(* and audio state it reads, modelled from src/src/script.js and the       *)
(* audio.js / controls.js parts of src/unnamed/part_000.                   *)
(*                                                                         *)
(* Numbers.  A JavaScript number is modelled in fixed point: the integer k *)
(* stands for k / SCALE, so 1190 is 1.19 and 850 is 0.85.  Products and    *)
(* quotients are truncated toward zero.  Magnitudes above FMax overflow to *)
(* the infinities, as a Float32Array element does above the largest        *)
(* Float32, and NaN is a value of its own; comparisons with NaN are false, *)
(* as in JavaScript.  Rounding below one unit (in particular the rounding  *)
(* of a double to the nearest Float32 when it is stored in the typed       *)
(* arrays) is below the resolution of the model.                           *)
(***************************************************************************)
EXTENDS Integers, Sequences, FiniteSets, TLC

VARIABLES
    PARAMS,             \* controls.js: the panel's parameter object
    positions,          \* particles.geometry.attributes.position.array (= particlePositions)
    particleVelocities, \* script.js: the velocity array
    particlesId,        \* which createParticles call built `particles` and its position array
    velocitiesId,       \* which createParticles call installed particleVelocities
    created,            \* number of createParticles calls so far
    audioEnabled,       \* audio.js: audioEnabled
    synth,              \* audio.js: synth exists
    effects,            \* audio.js: filter, delay and reverb exist (set and cleared together)
    analyzer,           \* audio.js: analyzer exists
    audioLevel,         \* animate: const audioLevel of the last tick
    isAudioActive,      \* animate: const isAudioActive of the last tick
    randomAngle,        \* animate: the Math.random() drawn for each particle in the last tick
    outOfRange,         \* animate: the last tick indexed past the end of an array
    steps,              \* number of operations run so far
    op,                 \* the operation that ran last
    prevPositions,      \* the position array as the last operation found it
    prevVelocities,     \* the velocity array as the last operation found it
    pendingFrames,      \* number of requestAnimationFrame(animate) callbacks not yet run
    frame,              \* parity of the number of animate() calls so far
    scene,              \* the particle objects in the scene, by the call that built them
    disposed,           \* the particle objects whose geometry and material were disposed
    activeKeysStack,    \* audio.js: activeKeysStack
    synthNote,          \* the frequency the synth is sounding, 0 when it is released
    returned,           \* what handleKeyDown / handleKeyUp returned last: << >> is null
    prevKeysStack,      \* activeKeysStack as the last key event found it
    lastKey,            \* event.key of the last key event, in upper case
    prevNote,           \* synthNote as the last key event found it
    callArgs,           \* the arguments of a function evaluated on its own
    callResult,         \* and its results
    contextRunning,     \* Tone.context.state === 'running'
    clicks,             \* number of clicks on the Sound button so far
    pendingStarts,      \* the clicks whose startAudio waits at await Tone.start()
    timers,             \* the clicks whose setTimeout(..., 450) callback is still due,
                        \* in the order they were armed, which is the order they fire
    autoNote            \* owner: the click whose automatic press put SPACE on the stack
                        \* (0: none); fired: the click of the timer that ran last;
                        \* released: the owner of the SPACE entry that timer removed

\* ------------------------------------------------------------------ numbers

\* One unit of the fixed-point representation is 1 / SCALE.
SCALE == 10 * 10 * 10

\* The largest finite magnitude a number of the model carries.
FMax == 2000000

Inf == FMax + 1
NegInf == -(FMax + 1)
NaN == FMax + 2

IsNaN(v) == v = NaN
IsInf(v) == v = Inf \/ v = NegInf
IsFinite(v) == v >= -FMax /\ v <= FMax

Abs(k) == IF k < 0 THEN -k ELSE k

\* Integer division truncated toward zero (b > 0).
TDiv(a, b) == IF a >= 0 THEN a \div b ELSE -((-a) \div b)

\* A finite result that left the finite range becomes an infinity.
Sat(k) == IF k > FMax THEN Inf ELSE IF k < -FMax THEN NegInf ELSE k

SignOf(v) == IF v > 0 THEN 1 ELSE IF v < 0 THEN -1 ELSE 0

\* a + b
FAdd(a, b) ==
    IF IsNaN(a) \/ IsNaN(b) THEN NaN
    ELSE IF IsInf(a) THEN (IF IsInf(b) /\ b # a THEN NaN ELSE a)
    ELSE IF IsInf(b) THEN b
    ELSE Sat(a + b)

\* a * b
FMul(a, b) ==
    IF IsNaN(a) \/ IsNaN(b) THEN NaN
    ELSE IF IsInf(a) \/ IsInf(b)
         THEN (IF a = 0 \/ b = 0 THEN NaN
               ELSE IF SignOf(a) * SignOf(b) > 0 THEN Inf ELSE NegInf)
    ELSE IF a = 0 \/ b = 0 THEN 0
    ELSE IF Abs(a) > (FMax * SCALE) \div Abs(b)
         THEN (IF SignOf(a) * SignOf(b) > 0 THEN Inf ELSE NegInf)
    ELSE Sat(TDiv(a * b, SCALE))

\* a / c for a finite c > 0
FDiv(a, c) ==
    IF IsNaN(a) THEN NaN
    ELSE IF IsInf(a) THEN a
    ELSE Sat(TDiv(a * SCALE, c))

\* -a
FNeg(a) == IF IsNaN(a) THEN NaN ELSE -a

\* a > b: false when either side is NaN
FGt(a, b) == ~IsNaN(a) /\ ~IsNaN(b) /\ a > b

\* Math.abs
FAbs(a) == IF IsNaN(a) THEN NaN ELSE Abs(a)

\* Math.sign
FSign(a) == IF IsNaN(a) THEN NaN ELSE SignOf(a) * SCALE

\* Math.max of two numbers
FMaxOf(a, b) == IF IsNaN(a) \/ IsNaN(b) THEN NaN ELSE IF a >= b THEN a ELSE b

\* Math.min of two numbers
FMinOf(a, b) == IF IsNaN(a) \/ IsNaN(b) THEN NaN ELSE IF a <= b THEN a ELSE b

\* The integer square root of k >= 0, one binary digit at a time: r is the
\* root so far and bit the digit being decided.
IsqrtBits[k \in Nat, r \in Nat, bit \in Nat] ==
    IF bit = 0 THEN r
    ELSE IsqrtBits[k,
                   IF r + bit <= 46340 /\ (r + bit) * (r + bit) <= k THEN r + bit ELSE r,
                   bit \div 2]

Isqrt(k) == IsqrtBits[k, 0, 32768]

\* F(a), with a evaluated once however often F refers to its argument
Once(F(_), a) == CHOOSE w \in {F(v) : v \in {a}} : TRUE

\* The largest component whose square the model's integers hold twice over.
SqLimit == 30 * SCALE

\* Math.sqrt(vx * vx + vy * vy).  With a component above SqLimit the larger
\* magnitude stands for the root: it is only compared with 0.001 and 0.25.
Hypot(vx, vy) ==
    IF IsNaN(vx) \/ IsNaN(vy) THEN NaN
    ELSE IF IsInf(vx) \/ IsInf(vy) THEN Inf
    ELSE IF Abs(vx) > SqLimit \/ Abs(vy) > SqLimit
         THEN (IF Abs(vx) >= Abs(vy) THEN Abs(vx) ELSE Abs(vy))
    ELSE Isqrt(vx * vx + vy * vy)

\* sin(PI * t) for t in units of 1 / SCALE, by Bhaskara's approximation
\* 16u(1-u) / (5 - 4u(1-u)) on each half period: exact at the zeros and the
\* extrema, within 0.002 elsewhere, and never above 1 in magnitude.
SinPi(t) ==
    IF ~IsFinite(t) THEN NaN
    ELSE LET u == t % (2 * SCALE)
             h == IF u < SCALE THEN u ELSE u - SCALE
             p == h * (SCALE - h)
             s == (4 * SCALE * p) \div ((5 * SCALE * SCALE) \div 4 - p)
         IN  IF u < SCALE THEN s ELSE -s

\* k * x for an integer k (a mode number) and a number x
FScale(k, x) ==
    IF IsNaN(x) THEN NaN
    ELSE IF IsInf(x) THEN (IF k = 0 THEN NaN ELSE IF k > 0 THEN x ELSE -x)
    ELSE Sat(k * x)

\* Math.cos and Math.sin of Math.random() * Math.PI * 2, for the draw r
CosTurn(r) == SinPi(2 * r + SCALE \div 2)
SinTurn(r) == SinPi(2 * r)

\* ---------------------------------------------------------------- script.js

PLANE_SIZE == 2400

\* PLANE_SIZE / 2
HalfPlane == PLANE_SIZE \div 2

\* animate: const bound = PLANE_SIZE / 2 - 0.01
bound == HalfPlane - 10

\* animate: const bounceDamping = 0.7
bounceDamping == 700

\* animate: const randomness = 0.07
randomness == 70

\* createParticles: const offsetScale = 0.1
offsetScale == 100

\* ChladniMix with the sum doubled (rejected by C17)
ChladniMix_Doubled(x1, y1, m, n) ==
    FScale(2, FAdd(FMul(PARAMS.patternMixX, FMul(SinPi(FScale(n, x1)), SinPi(FScale(m, y1)))),
                   FMul(PARAMS.patternMixY, FMul(SinPi(FScale(m, x1)), SinPi(FScale(n, y1))))))

\* chladni, after its conversion of x and y from [-1,1] to [0,1]:
\* a*sin(PI n x)*sin(PI m y) + b*sin(PI m x)*sin(PI n y), a and b from PARAMS
ChladniMix(x1, y1, m, n) ==
    FAdd(FMul(PARAMS.patternMixX, FMul(SinPi(FScale(n, x1)), SinPi(FScale(m, y1)))),
         FMul(PARAMS.patternMixY, FMul(SinPi(FScale(m, x1)), SinPi(FScale(n, y1)))))

\* chladni(x, y, m, n)
chladni(x, y, m, n) ==
    ChladniMix(FDiv(FAdd(x, SCALE), 2 * SCALE), FDiv(FAdd(y, SCALE), 2 * SCALE), m, n)

\* calculateFrequency without the lower limit of 20 Hz (rejected by C16)
calculateFrequency_NoFloor(m, n, a, b) ==
    FMinOf(FMul(FScale(55, Isqrt((m * m + n * n) * SCALE * SCALE)), Hypot(a, b)),
           2000 * SCALE)

\* calculateFrequency(m, n, a, b), in Hz
calculateFrequency(m, n, a, b) ==
    LET baseFreq == FScale(55, Isqrt((m * m + n * n) * SCALE * SCALE))
        mixingEffect == Hypot(a, b)
    IN  FMinOf(FMaxOf(FMul(baseFreq, mixingEffect), 20 * SCALE), 2000 * SCALE)

\* Element k (from 0) of a typed array; past the end it is undefined, which
\* is NaN in arithmetic.
ReadAt(arr, k) == IF k >= 0 /\ k < Len(arr) THEN arr[k + 1] ELSE NaN

\* arr[k] = v; a typed array ignores a write past its end.
WriteAt(arr, k, v) == IF k >= 0 /\ k < Len(arr) THEN [arr EXCEPT ![k + 1] = v] ELSE arr

\* IsAudioActive without the threshold on the level (rejected by C6)
IsAudioActive_NoThreshold(enabled, level) == enabled /\ FGt(level, 0)

\* animate: const isAudioActive = audio.isAudioEnabled() && audioLevel > 0.01
IsAudioActive(enabled, level) == enabled /\ FGt(level, 10)

\* animate: const force = value * PARAMS.vibrationStrength * (1 + audioLevel * 2)
\* with value = chladni(x_norm, y_norm, PARAMS.m, PARAMS.n)
Force(x, y, level) ==
    FMul(FMul(chladni(FDiv(x, HalfPlane), FDiv(y, HalfPlane), PARAMS.m, PARAMS.n),
              PARAMS.vibrationStrength),
         FAdd(SCALE, FMul(level, 2 * SCALE)))

\* animate, the active branch for one component: v += force * dir * randomness;
\* v *= 0.85, where dir is Math.cos or Math.sin of the random angle
Pushed(v, force, dir) == FMul(FAdd(v, FMul(FMul(force, dir), randomness)), 850)

\* animate, the active branch: <<vx, vy>>
ActiveVelocity(x, y, vx, vy, level, r) ==
    <<Pushed(vx, Force(x, y, level), CosTurn(r)),
      Pushed(vy, Force(x, y, level), SinTurn(r))>>

\* Settle with the sign of the speed term slipped: max(0.5, 1 + speed * 2)
\* (rejected by C5)
Settle_SignSlip(vx, vy, speed) ==
    IF FGt(speed, 1)
    THEN <<FMul(vx, FMaxOf(500, FAdd(SCALE, FMul(speed, 2 * SCALE)))),
           FMul(vy, FMaxOf(500, FAdd(SCALE, FMul(speed, 2 * SCALE))))>>
    ELSE <<0, 0>>

\* animate, the branch without sound after vx *= 0.85; vy *= 0.85: the
\* additional damping for a particle still moving, or the full stop.
Settle(vx, vy, speed) ==
    IF FGt(speed, 1)
    THEN <<FMul(vx, FMaxOf(500, FAdd(SCALE, FNeg(FMul(speed, 2 * SCALE))))),
           FMul(vy, FMaxOf(500, FAdd(SCALE, FNeg(FMul(speed, 2 * SCALE)))))>>
    ELSE <<0, 0>>

\* animate, the branch without sound: <<vx, vy>>
IdleVelocity(vx, vy) ==
    Once(LAMBDA d : Once(LAMBDA speed : Settle(d[1], d[2], speed), Hypot(d[1], d[2])),
         <<FMul(vx, 850), FMul(vy, 850)>>)

\* Reflect without the clamp of the coordinate (rejected by C1)
Reflect_NoClamp(p, v) ==
    IF FGt(FAbs(p), bound) THEN <<p, FMul(v, -bounceDamping)>> ELSE <<p, v>>

\* Reflect with a lossless bounce: the velocity is only reversed (rejected by C8)
Reflect_Lossless(p, v) ==
    IF FGt(FAbs(p), bound) THEN <<FMul(FSign(p), bound), FNeg(v)>> ELSE <<p, v>>

\* animate, the boundary condition on one axis: <<coordinate, velocity>>
Reflect(p, v) ==
    IF FGt(FAbs(p), bound)
    THEN <<FMul(FSign(p), bound), FMul(v, -bounceDamping)>>
    ELSE <<p, v>>

\* animate: x += vx; y += vy and the boundary conditions, for the new
\* velocity v = <<vx, vy>>: <<x, y, vx, vy>> as they are stored back
Move(x, y, v) ==
    <<Reflect(FAdd(x, v[1]), v[1])[1], Reflect(FAdd(y, v[2]), v[2])[1],
      Reflect(FAdd(x, v[1]), v[1])[2], Reflect(FAdd(y, v[2]), v[2])[2]>>

\* One pass of the body of animate's loop on the values of one particle
StepParticle(x, y, vx, vy, level, active, r) ==
    Once(LAMBDA v : Move(x, y, v),
         IF active THEN ActiveVelocity(x, y, vx, vy, level, r) ELSE IdleVelocity(vx, vy))

\* animate: "Store updated values" of particle i
StoreParticle(st, i, s) ==
    [pos |-> WriteAt(WriteAt(st.pos, i * 3, s[1]), i * 3 + 1, s[2]),
     vel |-> WriteAt(WriteAt(st.vel, i * 2, s[3]), i * 2 + 1, s[4])]

\* UpdateParticle reading the velocity at index i instead of i * 2
\* (rejected by C7)
UpdateParticle_Stride(st, i, level, active, r) ==
    StoreParticle(st, i,
                  StepParticle(ReadAt(st.pos, i * 3), ReadAt(st.pos, i * 3 + 1),
                               ReadAt(st.vel, i), ReadAt(st.vel, i + 1),
                               level, active, r))

\* The body of animate's loop for index i on the arrays st = [pos, vel]: reads
\* positions[i*3], positions[i*3+1], velocities[i*2], velocities[i*2+1] and
\* stores the updated values at the same places.
UpdateParticle(st, i, level, active, r) ==
    Once(LAMBDA s : StoreParticle(st, i, s),
         StepParticle(ReadAt(st.pos, i * 3), ReadAt(st.pos, i * 3 + 1),
                      ReadAt(st.vel, i * 2), ReadAt(st.vel, i * 2 + 1),
                      level, active, r))

\* AnimateLoop with the audio state read again inside the loop, finding the
\* sound gone after the first particle (rejected by C18)
RECURSIVE AnimateLoop_Resampled(_, _, _, _, _, _)
AnimateLoop_Resampled(st, from, count, level, active, angles) ==
    IF from >= count THEN st
    ELSE Once(LAMBDA next : AnimateLoop_Resampled(next, from + 1, count, level, active, angles),
              UpdateParticle(st, from, IF from = 0 THEN level ELSE 0, active /\ from = 0,
                             IF active /\ from = 0 THEN angles[from + 1] ELSE 0))

\* for (let i = from; i < count; i++) { ... } on the arrays, in place;
\* angles[i + 1] is the Math.random() of iteration i.
RECURSIVE AnimateLoop(_, _, _, _, _, _)
AnimateLoop(st, from, count, level, active, angles) ==
    IF from >= count THEN st
    ELSE Once(LAMBDA next : AnimateLoop(next, from + 1, count, level, active, angles),
              UpdateParticle(st, from, level, active,
                             IF active THEN angles[from + 1] ELSE 0))

\* Whether a loop over count particles indexes past the end of an array.
IndexesPastEnd(pos, vel, count) == count * 3 > Len(pos) \/ count * 2 > Len(vel)

\* createParticles: const preserveCount = Math.min(currentCount, PARAMS.particles)
PreserveCount(currentPositions, target) ==
    LET currentCount == Len(currentPositions) \div 3
    IN  IF currentCount <= target THEN currentCount ELSE target

\* createParticles: const sourceIdx = Math.floor(Math.random() * preserveCount)
SourceIdx(r, preserveCount) == (r * preserveCount) \div SCALE

\* createParticles: (Math.random() - 0.5) * offsetScale
Jitter(r) == FMul(r - SCALE \div 2, offsetScale)

\* SeedVelocity copying the whole velocity of the source (rejected by C9)
SeedVelocity_Full(v) == v

\* createParticles: the velocity given to an additional particle
SeedVelocity(v) == FMul(v, 500)

\* NewPosition copying the preserved particles in reverse order (rejected by C3)
NewPosition_Reversed(currentPositions, preserveCount, i, c, draws) ==
    IF i < preserveCount THEN ReadAt(currentPositions, (preserveCount - 1 - i) * 3 + c)
    ELSE IF c = 2 THEN 0
    ELSE FAdd(ReadAt(currentPositions, SourceIdx(draws[i][1], preserveCount) * 3 + c),
              Jitter(draws[i][c + 2]))

\* createParticles with an existing store: component c of particle i of
\* newPositions; draws[i] = <<source, x, y>> are the Math.random() of particle i.
NewPosition(currentPositions, preserveCount, i, c, draws) ==
    IF i < preserveCount THEN ReadAt(currentPositions, i * 3 + c)
    ELSE IF c = 2 THEN 0
    ELSE FAdd(ReadAt(currentPositions, SourceIdx(draws[i][1], preserveCount) * 3 + c),
              Jitter(draws[i][c + 2]))

\* createParticles with an existing store: component c of particle i of newVelocities
NewVelocity(currentVelocities, preserveCount, i, c, draws) ==
    IF i < preserveCount THEN ReadAt(currentVelocities, i * 2 + c)
    ELSE SeedVelocity(ReadAt(currentVelocities,
                             SourceIdx(draws[i][1], preserveCount) * 2 + c))

\* NewArrays allocating for the number of particles preserved instead of
\* PARAMS.particles (rejected by C2)
NewArrays_Preserved(currentPositions, currentVelocities, target, draws) ==
    LET preserveCount == PreserveCount(currentPositions, target)
    IN  [pos |-> [k \in 1..(preserveCount * 3) |-> ReadAt(currentPositions, k - 1)],
         vel |-> [k \in 1..(preserveCount * 2) |-> ReadAt(currentVelocities, k - 1)]]

\* NewArrays handing back the velocity array of the previous call with the
\* new position array (rejected by C4)
NewArrays_StaleVelocities(currentPositions, currentVelocities, target, draws) ==
    LET preserveCount == PreserveCount(currentPositions, target)
    IN  [pos |-> [k \in 1..(target * 3) |->
                    NewPosition(currentPositions, preserveCount,
                                (k - 1) \div 3, (k - 1) % 3, draws)],
         vel |-> currentVelocities]

\* createParticles: new Float32Array(PARAMS.particles * 3) and
\* new Float32Array(PARAMS.particles * 2), filled from the existing store.
NewArrays(currentPositions, currentVelocities, target, draws) ==
    LET preserveCount == PreserveCount(currentPositions, target)
    IN  [pos |-> [k \in 1..(target * 3) |->
                    NewPosition(currentPositions, preserveCount,
                                (k - 1) \div 3, (k - 1) % 3, draws)],
         vel |-> [k \in 1..(target * 2) |->
                    NewVelocity(currentVelocities, preserveCount,
                                (k - 1) \div 2, (k - 1) % 2, draws)]]

\* createParticles, first time: random positions in the plane, zero velocity;
\* draws[i] = <<x, y>> are the Math.random() of particle i.
FirstArrays(target, draws) ==
    [pos |-> [k \in 1..(target * 3) |->
                IF (k - 1) % 3 = 2 THEN 0
                ELSE FMul(draws[(k - 1) \div 3][((k - 1) % 3) + 1] - SCALE \div 2, PLANE_SIZE)],
     vel |-> [k \in 1..(target * 2) |-> 0]]

\* createParticles: new Float32Array(PARAMS.particles * 3) throws a RangeError
\* for a negative length.
AllocationThrows(target) == target * 3 < 0

\* createParticles: "Update global references" for the call numbered id
UpdateReferences(id, newPositions, newVelocities) ==
    [positions |-> newPositions, particlesId |-> id,
     particleVelocities |-> newVelocities, velocitiesId |-> id]

\* ----------------------------------------------------------------- audio.js

\* Math.max(...waveform.map(Math.abs))
RECURSIVE PeakAbs(_)
PeakAbs(waveform) ==
    IF waveform = << >> THEN NegInf
    ELSE LET rest == PeakAbs(Tail(waveform))
             a == FAbs(Head(waveform))
         IN  IF IsNaN(a) \/ IsNaN(rest) THEN NaN ELSE IF a >= rest THEN a ELSE rest

\* getAudioLevel() when the analyzer returns waveform
getAudioLevel(waveform) == IF analyzer /\ audioEnabled THEN PeakAbs(waveform) ELSE 0

\* baseKeyPatternMap: a key's basePattern (without its type), held in a
\* sequence that is empty for SPACE's null
baseKeyPatternMap ==
    [A |-> <<[m |-> 1, n |-> 9, a |-> 2 * SCALE, b |-> -2 * SCALE]>>,
     S |-> <<[m |-> 5, n |-> 8, a |-> -SCALE, b |-> -2 * SCALE]>>,
     D |-> <<[m |-> 1, n |-> 5, a |-> SCALE, b |-> -SCALE]>>,
     F |-> <<[m |-> 8, n |-> 4, a |-> SCALE, b |-> SCALE]>>,
     G |-> <<[m |-> 5, n |-> 5, a |-> SCALE, b |-> -SCALE]>>,
     Q |-> <<[m |-> 7, n |-> 7, a |-> SCALE, b |-> SCALE]>>,
     W |-> <<[m |-> 11, n |-> 2, a |-> -SCALE, b |-> 2 * SCALE]>>,
     E |-> <<[m |-> 4, n |-> 10, a |-> -2 * SCALE, b |-> SCALE]>>,
     R |-> <<[m |-> 4, n |-> 9, a |-> -2 * SCALE, b |-> -SCALE]>>,
     T |-> <<[m |-> 4, n |-> 11, a |-> SCALE, b |-> -2 * SCALE]>>,
     SPACE |-> << >>]

\* event.key.toUpperCase(), for the keys typed in the model
ToUpperCase(key) == IF key = "a" THEN "A" ELSE IF key = "z" THEN "Z" ELSE key

\* calculateFrequencyFromPattern(pattern), in Hz
calculateFrequencyFromPattern(pattern) ==
    FMinOf(FMaxOf(FMul(FScale(55, Isqrt((pattern.m * pattern.m + pattern.n * pattern.n)
                                        * SCALE * SCALE)),
                       Hypot(pattern.a, pattern.b)),
                  20 * SCALE),
           2000 * SCALE)

\* IsActive finding no key (rejected by C22)
IsActive_Never(stack, keyUpper) == FALSE

\* handleKeyDown: activeKeysStack.some((item) => item.key === keyUpper)
IsActive(stack, keyUpper) == \E i \in 1..Len(stack) : stack[i].key = keyUpper

\* handleKeyDown: the pattern of a key of the table; SPACE takes the panel's
PatternOf(keyUpper) ==
    IF keyUpper = "SPACE"
    THEN [m |-> PARAMS.m, n |-> PARAMS.n, a |-> PARAMS.patternMixX, b |-> PARAMS.patternMixY]
    ELSE baseKeyPatternMap[keyUpper][1]

\* handleKeyDown: activeKeyData
ActiveKeyData(keyUpper, pattern) ==
    [key |-> keyUpper, pattern |-> pattern,
     frequency |-> calculateFrequencyFromPattern(pattern)]

\* handleKeyDown({key, repeat}) with keyUpper = key.toUpperCase(), for the
\* audio state a = [audioEnabled, synth, effects, analyzer], the key stack
\* and the sounding note: the stack and the note it leaves, and what it
\* returns (<< >> for null)
KeyDownIn(a, stack, note, keyUpper, repeat) ==
    IF ~a.audioEnabled \/ ~a.synth \/ repeat \/ ~a.effects
       \/ keyUpper \notin DOMAIN baseKeyPatternMap \/ IsActive(stack, keyUpper)
    THEN [stack |-> stack, note |-> note, ret |-> << >>]
    ELSE [stack |-> Append(stack, ActiveKeyData(keyUpper, PatternOf(keyUpper))),
          note |-> calculateFrequencyFromPattern(PatternOf(keyUpper)),
          ret |-> <<PatternOf(keyUpper)>>]

\* handleKeyDown in the current state
handleKeyDown(keyUpper, repeat) ==
    KeyDownIn([audioEnabled |-> audioEnabled, synth |-> synth, effects |-> effects,
               analyzer |-> analyzer],
              activeKeysStack, synthNote, keyUpper, repeat)

\* handleKeyUp: activeKeysStack.findIndex((item) => item.key === keyUpper),
\* counted from 1, 0 when there is none
FindIndex(stack, keyUpper) ==
    IF IsActive(stack, keyUpper)
    THEN CHOOSE i \in 1..Len(stack) :
             stack[i].key = keyUpper /\ \A j \in 1..(i - 1) : stack[j].key # keyUpper
    ELSE 0

\* Splice removing the last element whatever the index, as a pop would
\* (rejected by C20)
Splice_Pop(stack, i) == SubSeq(stack, 1, Len(stack) - 1)

\* handleKeyUp: activeKeysStack.splice(releasedKeyIndex, 1)
Splice(stack, i) == SubSeq(stack, 1, i - 1) \o SubSeq(stack, i + 1, Len(stack))

\* handleKeyUp once the released key was found at index i: the synth is
\* released and, if keys remain, attacked again for the last of them
ReleaseKey(stack, i) ==
    IF Len(Splice(stack, i)) > 0
    THEN [stack |-> Splice(stack, i),
          note |-> Splice(stack, i)[Len(stack) - 1].frequency,
          ret |-> <<Splice(stack, i)[Len(stack) - 1].pattern>>]
    ELSE [stack |-> << >>, note |-> 0, ret |-> << >>]

\* handleKeyUp({key}) with keyUpper = key.toUpperCase()
handleKeyUp(keyUpper) ==
    IF ~audioEnabled \/ ~synth \/ FindIndex(activeKeysStack, keyUpper) = 0
    THEN [stack |-> activeKeysStack, note |-> synthNote, ret |-> << >>]
    ELSE ReleaseKey(activeKeysStack, FindIndex(activeKeysStack, keyUpper))

\* ShowPattern with the mode numbers and the coefficients exchanged
\* (rejected by C15)
ShowPattern_Exchanged(params, ret) ==
    IF ret = << >> THEN params
    ELSE [params EXCEPT !.m = ret[1].a, !.n = ret[1].b,
                        !.patternMixX = ret[1].m, !.patternMixY = ret[1].n]

\* The key handlers of script.js: PARAMS.m = pattern.m; ... when the audio
\* module returned a pattern
ShowPattern(params, ret) ==
    IF ret = << >> THEN params
    ELSE [params EXCEPT !.m = ret[1].m, !.n = ret[1].n,
                        !.patternMixX = ret[1].a, !.patternMixY = ret[1].b]

\* audio.updateFrequency(frequency): synth.frequency.value = frequency, which
\* retunes a note that is sounding
updateFrequency(note, frequency) ==
    IF synth /\ audioEnabled /\ note # 0 THEN frequency ELSE note

\* StartAudioState without the call of setupAudio (rejected by C23)
StartAudioState_NoSetup(ok) ==
    [audioEnabled |-> ok, synth |-> synth, effects |-> effects, analyzer |-> analyzer]

\* startAudio's outcome on the audio state: setupAudio when the synth or the
\* effects are missing, then audioEnabled = true; the catch clears the flag.
StartAudioState(ok) ==
    IF ok /\ (~synth \/ ~effects)
    THEN [audioEnabled |-> TRUE, synth |-> TRUE, effects |-> TRUE, analyzer |-> TRUE]
    ELSE [audioEnabled |-> ok, synth |-> synth, effects |-> effects, analyzer |-> analyzer]

\* Stopped without activeKeysStack = [] (rejected by C21)
Stopped_KeepsKeys(stack, note) ==
    IF synth /\ audioEnabled
    THEN [audioEnabled |-> FALSE, effects |-> FALSE, stack |-> stack, note |-> 0]
    ELSE [audioEnabled |-> audioEnabled, effects |-> effects, stack |-> stack, note |-> note]

\* stopAudio(): with a synth and the audio enabled it releases the synth,
\* clears the flag and the key stack and disposes filter, delay and reverb.
Stopped(stack, note) ==
    IF synth /\ audioEnabled
    THEN [audioEnabled |-> FALSE, effects |-> FALSE, stack |-> << >>, note |-> 0]
    ELSE [audioEnabled |-> audioEnabled, effects |-> effects, stack |-> stack, note |-> note]

\* ------------------------------------------------------------------- bounds

\* Clicks on the Sound button in one run.
MaxClicks == 4

\* Operations (ticks and panel or audio events) of one run.
MaxSteps == 3

\* Particle counts: the panel's range in the model, and the count at startup.
MaxParticles == 2
InitParticles == 1

ParticleCounts == 1..MaxParticles

\* Counts below the panel's range: none, and a negative one.
DegenerateCounts == {-1, 0}

\* Values Math.random() returns in createParticles and in animate.
RandomDraws == {0, 300, 999}
AngleDraws == {250, 625}

\* Samples of the analyzer's waveform (two samples stand for the 128).
Samples == {-500, 10, 11}

\* Samples of an analyzer that misbehaves: far out of range, or not finite.
FaultySamples == Samples \cup {900 * SCALE, Inf, NaN}

\* Samples of an analyzer whose output has blown up.
BlownSamples == {Inf}

\* Samples of a waveform that never exceeds the threshold of 0.01.
QuietSamples == {0, 10}

\* A store given to the integrator directly: coordinates inside and outside
\* the walls, velocities at rest, slow and fast.
TestCoordinates == {-1195, -480, 1195}
TestVelocities == {-1000, 0, 37, 1000}

\* event.key of the keys typed: two pattern keys, the space bar (named as the
\* handlers name it) and a key without a pattern.
TypedKeys == {"a", "W", "SPACE", "z"}

\* Values the panel sets: mode numbers, amplitude coefficients, vibration.
ModeValues == {1, 15}
MixValues == {-2000, 2000}
VibrationValues == {10, 200}

\* -------------------------------------------------------------------- state

vars == <<PARAMS, positions, particleVelocities, particlesId, velocitiesId, created,
          audioEnabled, synth, effects, analyzer, audioLevel, isAudioActive,
          randomAngle, outOfRange, steps, op, prevPositions, prevVelocities,
          pendingFrames, frame, scene, disposed,
          activeKeysStack, synthNote, returned, prevKeysStack, lastKey, prevNote,
          callArgs, callResult,
          contextRunning, clicks, pendingStarts, timers, autoNote>>

storeVars == <<positions, particleVelocities, particlesId, velocitiesId, created>>
audioVars == <<audioEnabled, synth, effects, analyzer>>
tickVars == <<audioLevel, isAudioActive, randomAngle, outOfRange>>
prevVars == <<prevPositions, prevVelocities>>
loopVars == <<pendingFrames, frame>>
sceneVars == <<scene, disposed>>
keyVars == <<activeKeysStack, synthNote, returned, prevKeysStack, lastKey, prevNote>>
callVars == <<callArgs, callResult>>
buttonVars == <<clicks, pendingStarts, timers, autoNote>>
soundVars == <<contextRunning, buttonVars>>

\* What init() and the modules' top level leave besides the store and the
\* audio state: the first animate() call is due (the DOMContentLoaded handler
\* calls it right after init()), the scene holds the first particle object,
\* no key is held.
InitRest ==
    /\ pendingFrames = 1 /\ frame = 0
    /\ scene = {1} /\ disposed = {}
    /\ activeKeysStack = << >> /\ synthNote = 0 /\ returned = << >>
    /\ prevKeysStack = << >> /\ lastKey = "" /\ prevNote = 0
    /\ contextRunning = audioEnabled
    /\ clicks = 0 /\ pendingStarts = {} /\ timers = << >>
    /\ autoNote = [owner |-> 0, fired |-> 0, released |-> 0]

\* No function has been called on its own.
InitCall == callArgs = << >> /\ callResult = << >>

\* controls.js: PARAMS as exported
InitialPARAMS ==
    [m |-> 3, n |-> 2, patternMixX |-> 1000, patternMixY |-> 1000,
     vibrationStrength |-> 100, particles |-> InitParticles,
     volume |-> 1000, isPlaying |-> FALSE]

\* The state after init(): the first createParticles has run.
Init ==
    /\ PARAMS = InitialPARAMS
    /\ \E draws \in [0..(InitParticles - 1) -> RandomDraws \X RandomDraws] :
         LET a == FirstArrays(InitParticles, draws)
             g == UpdateReferences(1, a.pos, a.vel)
         IN  /\ positions = g.positions
             /\ particleVelocities = g.particleVelocities
             /\ particlesId = g.particlesId
             /\ velocitiesId = g.velocitiesId
    /\ created = 1
    /\ audioEnabled = FALSE /\ synth = FALSE /\ effects = FALSE /\ analyzer = FALSE
    /\ audioLevel = 0 /\ isAudioActive = FALSE /\ randomAngle = << >>
    /\ outOfRange = FALSE
    /\ steps = 0
    /\ op = "init"
    /\ prevPositions = << >> /\ prevVelocities = << >>
    /\ InitRest
    /\ InitCall

\* FramesAfterTick without the request for the next frame (rejected by C13)
FramesAfterTick_Stalled(pending) == pending - 1

\* animate: the callbacks pending once a due animate() call has run its first
\* line, requestAnimationFrame(animate)
FramesAfterTick(pending) == (pending - 1) + 1

\* SceneAfterReplace without scene.remove of the old object (rejected by C14)
SceneAfterReplace_NoRemove(objects, old, new) == objects \cup {new}

\* createParticles: scene.remove(particles) of the old object, if any, and
\* scene.add(particles) of the new one
SceneAfterReplace(objects, old, new) == (objects \ old) \cup {new}

\* createParticles: particles.geometry.dispose(); particles.material.dispose()
\* of the old object, if any
DisposedAfterReplace(objects, old) == objects \cup old

\* animate(): the next frame is requested first; without a store the call
\* returns at once; otherwise it is one pass over the store, with the
\* analyzer's samples drawn from `samples`.  A counted pass uses up one of
\* the run's MaxSteps operations.
Tick(samples, counted) ==
    /\ counted => steps < MaxSteps
    /\ pendingFrames >= 1
    /\ pendingFrames' = FramesAfterTick(pendingFrames)
    /\ frame' = 1 - frame
    /\ IF created = 0 THEN UNCHANGED <<positions, particleVelocities, tickVars>> ELSE
       \E waveform \in samples \X samples :
         \E level \in {getAudioLevel(waveform)} :
           \E active \in {IsAudioActive(audioEnabled, level)} :
             \E angles \in (IF active THEN [1..PARAMS.particles -> AngleDraws]
                            ELSE {<< >>}) :
               \E r \in {AnimateLoop([pos |-> positions, vel |-> particleVelocities],
                                     0, PARAMS.particles, level, active, angles)} :
                   /\ positions' = r.pos
                   /\ particleVelocities' = r.vel
                   /\ audioLevel' = level
                   /\ isAudioActive' = active
                   /\ randomAngle' = angles
                   /\ outOfRange' = IndexesPastEnd(positions, particleVelocities,
                                                   PARAMS.particles)
    /\ steps' = IF counted THEN steps + 1 ELSE steps
    /\ op' = "animate"
    /\ prevPositions' = positions
    /\ prevVelocities' = particleVelocities
    /\ UNCHANGED <<PARAMS, particlesId, velocitiesId, created, audioVars>>
    /\ UNCHANGED <<sceneVars, keyVars, callVars, soundVars>>

animate == Tick(Samples, TRUE)

\* animate() while the analyzer returns out-of-range and non-finite samples
animateFaulty == Tick(FaultySamples, TRUE)

\* animate() while the waveform stays at or below the 0.01 threshold
animateQuiet == Tick(QuietSamples, FALSE)

\* PARAMS.particles is set to target, then onParticlesChange calls
\* createParticles(), which returns (the store is replaced) or throws at its
\* first line (nothing but PARAMS has changed).
SetParticles(target) ==
    /\ steps < MaxSteps
    /\ PARAMS' = [PARAMS EXCEPT !.particles = target]
    /\ IF AllocationThrows(target)
       THEN /\ op' = "RangeError"
            /\ UNCHANGED <<storeVars, sceneVars>>
       ELSE /\ LET preserveCount == PreserveCount(positions, target)
               IN  \E draws \in [preserveCount..(target - 1) ->
                                   RandomDraws \X RandomDraws \X RandomDraws] :
                     LET a == NewArrays(positions, particleVelocities, target, draws)
                         g == UpdateReferences(created + 1, a.pos, a.vel)
                     IN  /\ positions' = g.positions
                         /\ particleVelocities' = g.particleVelocities
                         /\ particlesId' = g.particlesId
                         /\ velocitiesId' = g.velocitiesId
            /\ created' = created + 1
            /\ scene' = SceneAfterReplace(scene, {particlesId}, created + 1)
            /\ disposed' = DisposedAfterReplace(disposed, {particlesId})
            /\ op' = "createParticles"
    /\ steps' = steps + 1
    /\ prevPositions' = positions
    /\ prevVelocities' = particleVelocities
    /\ UNCHANGED <<audioVars, tickVars, loopVars, keyVars, callVars, soundVars>>

\* The panel's Particles binding writes a count of its range.
ParticlesChange == \E target \in ParticleCounts : SetParticles(target)

\* A particle-count change that asks for no particles, or fewer.
ParticlesChangeDegenerate == \E target \in DegenerateCounts : SetParticles(target)

\* The panel's pattern bindings write one of m, n, patternMixX, patternMixY.
PatternChange ==
    /\ steps < MaxSteps
    /\ \/ \E v \in ModeValues : PARAMS' = [PARAMS EXCEPT !.m = v]
       \/ \E v \in ModeValues : PARAMS' = [PARAMS EXCEPT !.n = v]
       \/ \E v \in MixValues : PARAMS' = [PARAMS EXCEPT !.patternMixX = v]
       \/ \E v \in MixValues : PARAMS' = [PARAMS EXCEPT !.patternMixY = v]
    /\ steps' = steps + 1
    /\ op' = "onPatternChange"
    /\ UNCHANGED <<storeVars, audioVars, tickVars, prevVars>>
    /\ UNCHANGED <<loopVars, sceneVars, keyVars, callVars, soundVars>>

\* The panel's Vibration binding writes PARAMS.vibrationStrength.
VibrationChange ==
    /\ steps < MaxSteps
    /\ \E v \in VibrationValues : PARAMS' = [PARAMS EXCEPT !.vibrationStrength = v]
    /\ steps' = steps + 1
    /\ op' = "onVibrationChange"
    /\ UNCHANGED <<storeVars, audioVars, tickVars, prevVars>>
    /\ UNCHANGED <<loopVars, sceneVars, keyVars, callVars, soundVars>>

\* audio.startAudio(frequency, volume), succeeding or failing
startAudio ==
    /\ steps < MaxSteps
    /\ \E ok \in BOOLEAN :
         LET a == StartAudioState(ok)
         IN  /\ audioEnabled' = a.audioEnabled
             /\ synth' = a.synth
             /\ effects' = a.effects
             /\ analyzer' = a.analyzer
             /\ contextRunning' = (contextRunning \/ a.audioEnabled)
    /\ steps' = steps + 1
    /\ op' = "startAudio"
    /\ UNCHANGED <<PARAMS, storeVars, tickVars, prevVars>>
    /\ UNCHANGED <<loopVars, sceneVars, keyVars, callVars, buttonVars>>

\* audio.stopAudio()
stopAudio ==
    /\ steps < MaxSteps
    /\ audioEnabled' = Stopped(activeKeysStack, synthNote).audioEnabled
    /\ effects' = Stopped(activeKeysStack, synthNote).effects
    /\ synthNote' = Stopped(activeKeysStack, synthNote).note
    /\ activeKeysStack' = Stopped(activeKeysStack, synthNote).stack
    /\ steps' = steps + 1
    /\ op' = "stopAudio"
    /\ UNCHANGED <<PARAMS, storeVars, synth, analyzer, tickVars, prevVars>>
    /\ UNCHANGED <<loopVars, sceneVars, returned, prevKeysStack, lastKey, prevNote>>
    /\ UNCHANGED <<callVars, soundVars>>

\* The state a key handler leaves: h is what the audio module did and
\* returned, params the panel's parameters as the handler leaves them.
KeyEvent(kind, keyUpper, h, params) ==
    /\ activeKeysStack' = h.stack
    /\ synthNote' = h.note
    /\ returned' = h.ret
    /\ PARAMS' = params
    /\ prevKeysStack' = activeKeysStack
    /\ lastKey' = keyUpper
    /\ prevNote' = synthNote
    /\ op' = kind
    /\ UNCHANGED <<storeVars, audioVars, tickVars, steps, prevVars>>
    /\ UNCHANGED <<loopVars, sceneVars, callVars, soundVars>>

\* A key handler that does not call the audio module.
NoCall == [stack |-> activeKeysStack, note |-> synthNote, ret |-> << >>]

\* The space bar's keydown: audio.updateFrequency(freq) and then
\* audio.handleKeyDown({ key: 'SPACE' }), whose attack sets the note anew.
SpaceDown ==
    [handleKeyDown("SPACE", FALSE) EXCEPT
        !.note = IF handleKeyDown("SPACE", FALSE).stack = activeKeysStack
                 THEN updateFrequency(synthNote,
                                      calculateFrequency(PARAMS.m, PARAMS.n,
                                                         PARAMS.patternMixX,
                                                         PARAMS.patternMixY))
                 ELSE handleKeyDown("SPACE", FALSE).note]

\* document's keydown listener
keydown ==
    \E key \in TypedKeys, repeat \in BOOLEAN :
        IF key = "SPACE" /\ ~repeat
        THEN KeyEvent("keydown", "SPACE", IF audioEnabled THEN SpaceDown ELSE NoCall, PARAMS)
        ELSE IF audioEnabled \/ PARAMS.isPlaying
        THEN KeyEvent(IF repeat THEN "keydown repeat" ELSE "keydown",
                      ToUpperCase(key), handleKeyDown(ToUpperCase(key), repeat),
                      ShowPattern(PARAMS, handleKeyDown(ToUpperCase(key), repeat).ret))
        ELSE KeyEvent("keydown", ToUpperCase(key), NoCall, PARAMS)

\* document's keyup listener
keyup ==
    \E key \in TypedKeys :
        IF key = "SPACE"
        THEN KeyEvent("keyup", "SPACE", IF audioEnabled THEN handleKeyUp("SPACE") ELSE NoCall,
                      PARAMS)
        ELSE IF audioEnabled
        THEN KeyEvent("keyup", ToUpperCase(key), handleKeyUp(ToUpperCase(key)),
                      ShowPattern(PARAMS, handleKeyUp(ToUpperCase(key)).ret))
        ELSE KeyEvent("keyup", ToUpperCase(key), NoCall, PARAMS)

\* onPlayingChange(true) after audio.startAudio() returned with the audio
\* state a, for the click id: with the audio enabled the automatic
\* handleKeyDown({ key: 'SPACE' }) and the setTimeout of its release.
SoundOn(id, a) ==
    LET h == IF a.audioEnabled
             THEN KeyDownIn(a, activeKeysStack, synthNote, "SPACE", FALSE)
             ELSE NoCall
    IN  /\ audioEnabled' = a.audioEnabled /\ synth' = a.synth
        /\ effects' = a.effects /\ analyzer' = a.analyzer
        /\ activeKeysStack' = h.stack
        /\ synthNote' = h.note
        /\ returned' = h.ret
        /\ prevKeysStack' = activeKeysStack
        /\ prevNote' = synthNote
        /\ timers' = IF a.audioEnabled THEN Append(timers, id) ELSE timers
        /\ autoNote' = IF h.stack # activeKeysStack
                       THEN [autoNote EXCEPT !.owner = id]
                       ELSE autoNote

\* onPlayingChange(false): audio.stopAudio(), then handleKeyUp({ key: 'SPACE' })
\* if the audio is still enabled.
SoundOff ==
    LET st == Stopped(activeKeysStack, synthNote)
        h == IF st.audioEnabled THEN handleKeyUp("SPACE") ELSE NoCall
    IN  /\ audioEnabled' = st.audioEnabled
        /\ effects' = st.effects
        /\ activeKeysStack' = IF st.audioEnabled THEN h.stack ELSE st.stack
        /\ synthNote' = IF st.audioEnabled THEN h.note ELSE st.note
        /\ returned' = h.ret
        /\ prevKeysStack' = activeKeysStack
        /\ prevNote' = synthNote
        /\ autoNote' = IF IsActive(activeKeysStack, "SPACE") /\ ~st.audioEnabled
                       THEN [autoNote EXCEPT !.owner = 0]
                       ELSE autoNote
        /\ UNCHANGED <<synth, analyzer, timers>>

\* A click on the Sound button: PARAMS.isPlaying = !PARAMS.isPlaying and
\* onPlayingChange(PARAMS.isPlaying).  startAudio waits at await Tone.start()
\* while the audio context is not running; with a running context it and
\* the rest of onPlayingChange run before any other event.
clickSound ==
    /\ clicks < MaxClicks
    /\ clicks' = clicks + 1
    /\ PARAMS' = [PARAMS EXCEPT !.isPlaying = ~PARAMS.isPlaying]
    /\ IF PARAMS.isPlaying
       THEN SoundOff /\ UNCHANGED pendingStarts
       ELSE IF contextRunning
       THEN SoundOn(clicks + 1, StartAudioState(TRUE)) /\ UNCHANGED pendingStarts
       ELSE /\ pendingStarts' = pendingStarts \cup {clicks + 1}
            /\ UNCHANGED <<audioVars, keyVars, timers, autoNote>>
    /\ op' = "click"
    /\ UNCHANGED <<storeVars, tickVars, steps, prevVars, lastKey, contextRunning>>
    /\ UNCHANGED <<loopVars, sceneVars, callVars>>

\* Tone.start() settles for a waiting startAudio: resolved, the context runs
\* and startAudio and onPlayingChange go on; rejected, which a running
\* context does not do, the catch clears audioEnabled.
toneStart ==
    /\ \E id \in pendingStarts, ok \in BOOLEAN :
         /\ ok \/ ~contextRunning
         /\ pendingStarts' = pendingStarts \ {id}
         /\ contextRunning' = (contextRunning \/ ok)
         /\ SoundOn(id, StartAudioState(ok))
    /\ op' = "onPlayingChange"
    /\ UNCHANGED <<PARAMS, storeVars, tickVars, steps, prevVars, lastKey, clicks>>
    /\ UNCHANGED <<loopVars, sceneVars, callVars>>

\* The callback of setTimeout(..., 450): handleKeyUp({ key: 'SPACE' }) if the
\* audio is enabled.
releaseTimer ==
    /\ timers # << >>
    /\ \E id \in {Head(timers)} :
         LET h == IF audioEnabled THEN handleKeyUp("SPACE") ELSE NoCall
             removed == IsActive(activeKeysStack, "SPACE") /\ ~IsActive(h.stack, "SPACE")
         IN  /\ timers' = Tail(timers)
             /\ activeKeysStack' = h.stack
             /\ synthNote' = h.note
             /\ returned' = h.ret
             /\ autoNote' = [owner |-> IF removed THEN 0 ELSE autoNote.owner,
                             fired |-> id,
                             released |-> IF removed THEN autoNote.owner ELSE 0]
    /\ prevKeysStack' = activeKeysStack
    /\ prevNote' = synthNote
    /\ op' = "releaseTimer"
    /\ UNCHANGED <<PARAMS, storeVars, audioVars, tickVars, steps, prevVars, lastKey>>
    /\ UNCHANGED <<loopVars, sceneVars, callVars, contextRunning, clicks, pendingStarts>>

Next ==
    \/ animate
    \/ ParticlesChange
    \/ PatternChange
    \/ VibrationChange
    \/ startAudio
    \/ stopAudio

Spec == Init /\ [][Next]_vars

\* The integrator on a one-particle store drawn from the test values, with
\* the audio engine started or not.
InitStep ==
    /\ PARAMS = [InitialPARAMS EXCEPT !.particles = 1]
    /\ \E x \in TestCoordinates, y \in TestCoordinates :
         positions = <<x, y, 0>>
    /\ \E vx \in TestVelocities, vy \in TestVelocities :
         particleVelocities = <<vx, vy>>
    /\ particlesId = 1 /\ velocitiesId = 1 /\ created = 1
    /\ audioEnabled \in BOOLEAN
    /\ synth = audioEnabled /\ effects = audioEnabled /\ analyzer = audioEnabled
    /\ audioLevel = 0 /\ isAudioActive = FALSE /\ randomAngle = << >>
    /\ outOfRange = FALSE
    /\ steps = 0
    /\ op = "init"
    /\ prevPositions = << >> /\ prevVelocities = << >>
    /\ InitRest
    /\ InitCall

NextStep == animate

SpecStep == InitStep /\ [][NextStep]_vars

\* One particle given to the integrator, at rest or moving.
InitIdle ==
    /\ InitStep
    /\ positions[2] = -480
    /\ particleVelocities[2] \in {0, SCALE}

\* Ticks without sound, for ever: requestAnimationFrame schedules every next tick.
NextIdle == animateQuiet

SpecIdle == InitIdle /\ [][NextIdle]_vars /\ WF_vars(animateQuiet)

\* The program with a misbehaving analyzer.
NextFaulty ==
    \/ animateFaulty
    \/ ParticlesChange
    \/ PatternChange
    \/ startAudio

SpecFaulty == Init /\ [][NextFaulty]_vars

\* The tick loop for ever, between audio switches, panel changes and resizes.
NextLoop ==
    \/ animateQuiet
    \/ ParticlesChange
    \/ PatternChange
    \/ VibrationChange
    \/ startAudio
    \/ stopAudio

\* The state after init() with the first particle at (-0.48, -0.48).
InitLoop == Init /\ positions[1] = -480 /\ positions[2] = -480

SpecLoop == InitLoop /\ [][NextLoop]_vars /\ WF_vars(animateQuiet)

\* The keyboard and the panel's pattern controls once audio is started.
NextKeys ==
    \/ keydown
    \/ keyup
    \/ startAudio
    \/ PatternChange

SpecKeys == InitLoop /\ [][NextKeys]_vars

\* The keyboard and the audio switch, without edits on the panel.
NextHeld ==
    \/ keydown
    \/ keyup
    \/ startAudio
    \/ stopAudio

SpecHeld == InitLoop /\ [][NextHeld]_vars

\* The program with particle-count changes below the panel's range.
\* The particle store, the audio state and the loop as init() leaves them
\* for one particle, for the specifications that call a function on its own.
Parked ==
    /\ positions = <<-480, -480, 0>> /\ particleVelocities = <<0, 0>>
    /\ particlesId = 1 /\ velocitiesId = 1 /\ created = 1
    /\ audioEnabled = FALSE /\ synth = FALSE /\ effects = FALSE /\ analyzer = FALSE
    /\ audioLevel = 0 /\ isAudioActive = FALSE /\ randomAngle = << >>
    /\ outOfRange = FALSE
    /\ steps = 0
    /\ op = "init"
    /\ prevPositions = << >> /\ prevVelocities = << >>
    /\ InitRest

\* The mode numbers and the amplitude coefficients the panel can set
\* (min 1, max 15, step 1 and min -2, max 2, step 1).
PanelModes == 1..15
PanelMixes == {-2 * SCALE, -SCALE, 0, SCALE, 2 * SCALE}

\* calculateFrequency and calculateFrequencyFromPattern called with
\* m, n, a, b in the panel's ranges.
InitFreq ==
    /\ PARAMS = InitialPARAMS
    /\ Parked
    /\ callArgs \in PanelModes \X PanelModes \X PanelMixes \X PanelMixes
    /\ callResult = << >>

\* <<calculateFrequency(m, n, a, b), calculateFrequencyFromPattern({m, n, a, b})>>
callFrequency ==
    /\ callResult = << >>
    /\ callResult' = <<calculateFrequency(callArgs[1], callArgs[2], callArgs[3], callArgs[4]),
                       calculateFrequencyFromPattern([m |-> callArgs[1], n |-> callArgs[2],
                                                      a |-> callArgs[3], b |-> callArgs[4]])>>
    /\ op' = "calculateFrequency"
    /\ UNCHANGED <<PARAMS, storeVars, audioVars, tickVars, steps, prevVars>>
    /\ UNCHANGED <<loopVars, sceneVars, keyVars, callArgs, soundVars>>

NextFreq == callFrequency

SpecFreq == InitFreq /\ [][NextFreq]_vars

\* Mode numbers, positions in the plane (x_norm from -1 to 1) and audio
\* levels for the field and the force.
FieldModes == {1, 2, 7, 15}
FieldCoordinates == {-1200, -600, -165, 0, 300, 735, 1200}
FieldLevels == {11, 500, SCALE, 900 * SCALE}

\* chladni and the force of an active tick for a particle at (x, y), with
\* the pattern and the vibration strength in the panel's ranges.
InitField ==
    /\ \E m \in FieldModes, n \in FieldModes, a \in PanelMixes, b \in PanelMixes,
          v \in VibrationValues :
          PARAMS = [InitialPARAMS EXCEPT !.m = m, !.n = n, !.patternMixX = a,
                                         !.patternMixY = b, !.vibrationStrength = v]
    /\ Parked
    /\ callArgs \in FieldCoordinates \X FieldCoordinates \X FieldLevels
    /\ callResult = << >>

\* <<chladni(x_norm, y_norm, PARAMS.m, PARAMS.n), force>> for x = callArgs[1],
\* y = callArgs[2], audioLevel = callArgs[3]
callForce ==
    /\ callResult = << >>
    /\ callResult' = <<chladni(FDiv(callArgs[1], HalfPlane), FDiv(callArgs[2], HalfPlane),
                               PARAMS.m, PARAMS.n),
                       Force(callArgs[1], callArgs[2], callArgs[3])>>
    /\ op' = "chladni"
    /\ UNCHANGED <<PARAMS, storeVars, audioVars, tickVars, steps, prevVars>>
    /\ UNCHANGED <<loopVars, sceneVars, keyVars, callArgs, soundVars>>

NextField == callForce

SpecField == InitField /\ [][NextField]_vars

\* Two particles at rest with the audio started: the state after a resize
\* to two particles and a click on the audio button.
InitPair ==
    /\ PARAMS = [InitialPARAMS EXCEPT !.particles = 2]
    /\ positions = <<-480, -480, 0, 300, 735, 0>>
    /\ particleVelocities = <<0, 0, 0, 0>>
    /\ particlesId = 2 /\ velocitiesId = 2 /\ created = 2
    /\ audioEnabled = TRUE /\ synth = TRUE /\ effects = TRUE /\ analyzer = TRUE
    /\ audioLevel = 0 /\ isAudioActive = FALSE /\ randomAngle = << >>
    /\ outOfRange = FALSE
    /\ steps = 0
    /\ op = "init"
    /\ prevPositions = << >> /\ prevVelocities = << >>
    /\ pendingFrames = 1 /\ frame = 0
    /\ scene = {2} /\ disposed = {1}
    /\ activeKeysStack = << >> /\ synthNote = 0 /\ returned = << >>
    /\ prevKeysStack = << >> /\ lastKey = "" /\ prevNote = 0
    /\ contextRunning = TRUE
    /\ clicks = 0 /\ pendingStarts = {} /\ timers = << >>
    /\ autoNote = [owner |-> 0, fired |-> 0, released |-> 0]
    /\ InitCall

\* Ticks with the panel's callbacks between them.
NextPair ==
    \/ animate
    \/ PatternChange
    \/ VibrationChange

SpecPair == InitPair /\ [][NextPair]_vars

\* The Sound button, the audio starts it leaves waiting, the release timers
\* and the keyboard.
NextSound ==
    \/ clickSound
    \/ toneStart
    \/ releaseTimer
    \/ keydown
    \/ keyup

SpecSound == InitLoop /\ [][NextSound]_vars

\* The Sound button alone, between ticks: the user presses no key.  A timer
\* that is due fires.
NextAuto ==
    \/ clickSound
    \/ toneStart
    \/ releaseTimer
    \/ animateQuiet

SpecAuto == InitLoop /\ [][NextAuto]_vars /\ WF_vars(releaseTimer)

NextDegenerate ==
    \/ animate
    \/ ParticlesChange
    \/ ParticlesChangeDegenerate
    \/ startAudio

SpecDegenerate == Init /\ [][NextDegenerate]_vars

\* animate() while the analyzer returns infinite samples
animateBlown == Tick(BlownSamples, FALSE)

\* Ticks for ever, with a blown-up or a quiet analyzer, after non-finite
\* values may have entered the store.
NextHeal ==
    \/ animateBlown
    \/ animateQuiet
    \/ startAudio

SpecHeal == Init /\ [][NextHeal]_vars /\ WF_vars(animateQuiet)

\* ------------------------------------------------------------------- claims

\* Number of particles an array of the given stride holds.
CountOf(arr, stride) == Len(arr) \div stride

\* The indices of the particles of the current store.
Particles == 0..(CountOf(positions, 3) - 1)

\* <<x, y, vx, vy>> of particle i in the arrays pos and vel
ParticleOf(pos, vel, i) ==
    <<ReadAt(pos, i * 3), ReadAt(pos, i * 3 + 1), ReadAt(vel, i * 2), ReadAt(vel, i * 2 + 1)>>

\* vx * vx + vy * vy of particle i of a velocity array with finite entries
SpeedSq(vel, i) ==
    ReadAt(vel, i * 2) * ReadAt(vel, i * 2) + ReadAt(vel, i * 2 + 1) * ReadAt(vel, i * 2 + 1)

C2_StoreHoldsTargetCount ==
    /\ Len(positions) = 3 * PARAMS.particles
    /\ Len(particleVelocities) = 2 * PARAMS.particles

\* C2 witness: a resize that changed the number of particles.
C2_Witness ==
    /\ op = "createParticles"
    /\ Len(positions) # Len(prevPositions)
    /\ Len(positions) = 3 * PARAMS.particles

\* C3: a resize leaves the position (x, y, z) and the velocity (vx, vy) of
\* every particle below min(old count, new count) exactly as they were.
C3_ResizePreservesPrefix ==
    op = "createParticles" =>
        \A i \in 0..(CountOf(prevPositions, 3) - 1) :
            i < CountOf(positions, 3) =>
                /\ \A c \in 0..2 :
                     ReadAt(positions, i * 3 + c) = ReadAt(prevPositions, i * 3 + c)
                /\ \A c \in 0..1 :
                     ReadAt(particleVelocities, i * 2 + c) = ReadAt(prevVelocities, i * 2 + c)

\* C3 witness: a resize of a store in which a particle was moving.
C3_Witness ==
    /\ op = "createParticles"
    /\ Len(positions) # Len(prevPositions)
    /\ ReadAt(prevVelocities, 0) # 0
    /\ ReadAt(particleVelocities, 0) = ReadAt(prevVelocities, 0)

\* C4: at every point where a tick can run, the position array and the
\* velocity array were installed by the same createParticles call and both
\* hold PARAMS.particles particles; no tick has indexed past their ends.
C4_NoHalfAppliedResize ==
    /\ particlesId = velocitiesId
    /\ CountOf(positions, 3) = PARAMS.particles
    /\ CountOf(particleVelocities, 2) = PARAMS.particles
    /\ ~outOfRange

\* C4 witness: a tick ran on a store installed by a resize.
C4_Witness ==
    /\ op = "animate"
    /\ particlesId > 1
    /\ particlesId = velocitiesId
    /\ Len(prevPositions) = 3 * PARAMS.particles

\* C6: a tick is active exactly when audio is enabled and the level is above
\* 0.01; in every other tick no particle ends the step faster than it began.
C6_ForcingGatedByAudio ==
    op = "animate" =>
        /\ isAudioActive <=> (audioEnabled /\ audioLevel > 10)
        /\ ~isAudioActive =>
               \A i \in Particles :
                   SpeedSq(particleVelocities, i) <= SpeedSq(prevVelocities, i)

\* C6 witness: a tick with audio enabled and the level exactly 0.01 damped a
\* moving particle.
C6_Witness ==
    /\ op = "animate"
    /\ audioEnabled /\ audioLevel = 10 /\ ~isAudioActive
    /\ \E i \in Particles :
           /\ SpeedSq(prevVelocities, i) > 0
           /\ SpeedSq(particleVelocities, i) < SpeedSq(prevVelocities, i)

\* The array arr with every particle but i replaced by other values.
OthersChanged(arr, i, stride) ==
    [k \in 1..Len(arr) |-> IF (k - 1) \div stride = i THEN arr[k] ELSE 37 - arr[k]]

\* The array arr with its particles in reverse order.
Reversed(arr, stride) ==
    [k \in 1..Len(arr) |->
        arr[(CountOf(arr, stride) - 1 - (k - 1) \div stride) * stride + ((k - 1) % stride) + 1]]

\* C7: the result of a tick for particle i is the result of the same tick
\* (same parameters, level and random angle for i) on a store that agrees on
\* particle i and differs on all others, and on the store with the particles
\* in reverse order (particle i then sits at the mirrored index).
C7_NoInterParticleCoupling ==
    op = "animate" =>
        LET n == CountOf(positions, 3)
        IN  \A i \in Particles :
            /\ LET other == AnimateLoop([pos |-> OthersChanged(prevPositions, i, 3),
                                         vel |-> OthersChanged(prevVelocities, i, 2)],
                                        0, n, audioLevel, isAudioActive, randomAngle)
               IN  ParticleOf(other.pos, other.vel, i)
                       = ParticleOf(positions, particleVelocities, i)
            /\ LET rev == AnimateLoop([pos |-> Reversed(prevPositions, 3),
                                       vel |-> Reversed(prevVelocities, 2)],
                                      0, n, audioLevel, isAudioActive,
                                      [k \in 1..Len(randomAngle) |->
                                          randomAngle[Len(randomAngle) + 1 - k]])
               IN  ParticleOf(rev.pos, rev.vel, n - 1 - i)
                       = ParticleOf(positions, particleVelocities, i)

\* C7 witness: an active tick moved two particles.
C7_Witness ==
    /\ op = "animate"
    /\ isAudioActive
    /\ CountOf(positions, 3) >= 2
    /\ \A i \in Particles : SpeedSq(particleVelocities, i) > 0

\* Whether new particle i was seeded from particle j of the previous store:
\* half its velocity (to the model's unit), within the jitter half-width of
\* its x and y, and z = 0.
SeededFrom(i, j) ==
    /\ \A c \in 0..1 :
         /\ ReadAt(particleVelocities, i * 2 + c) = TDiv(ReadAt(prevVelocities, j * 2 + c), 2)
         /\ Abs(ReadAt(positions, i * 3 + c) - ReadAt(prevPositions, j * 3 + c))
                <= offsetScale \div 2
    /\ ReadAt(positions, i * 3 + 2) = 0

\* C9: when a resize grows the store, every new particle has a source among
\* the old particles: half its velocity, its x and y within 0.05, z = 0; so
\* no new particle is faster than the fastest old one.
C9_GrowthSeeding ==
    (op = "createParticles" /\ CountOf(positions, 3) > CountOf(prevPositions, 3)) =>
        \A i \in CountOf(prevPositions, 3)..(CountOf(positions, 3) - 1) :
            /\ \E j \in 0..(CountOf(prevPositions, 3) - 1) : SeededFrom(i, j)
            /\ \E j \in 0..(CountOf(prevPositions, 3) - 1) :
                   SpeedSq(particleVelocities, i) <= SpeedSq(prevVelocities, j)

\* C9 witness: a growing resize seeded a new particle from a moving one.
C9_Witness ==
    /\ op = "createParticles"
    /\ CountOf(positions, 3) > CountOf(prevPositions, 3)
    /\ \E i \in CountOf(prevPositions, 3)..(CountOf(positions, 3) - 1) :
           /\ SpeedSq(particleVelocities, i) > 0
           /\ \E j \in 0..(CountOf(prevPositions, 3) - 1) : SeededFrom(i, j)

\* C5: when no tick is active, every particle's velocity reaches exactly
\* (0, 0) after finitely many ticks and is (0, 0) in every later tick.
C5_IdleDampingConvergence ==
    <>[](\A k \in 1..Len(particleVelocities) : particleVelocities[k] = 0)

\* C5 witness: a tick without sound brought a moving particle to a full stop.
C5_Witness ==
    /\ op = "animate"
    /\ ~isAudioActive
    /\ \E i \in Particles : SpeedSq(prevVelocities, i) > 0
    /\ \A k \in 1..Len(particleVelocities) : particleVelocities[k] = 0

\* Whether particle 0 began the last tick beyond the positive wall on axis c
\* (0 for x, 1 for y) with velocity +1 on that axis.
BeganBeyondWall(c) ==
    /\ op = "animate"
    /\ ReadAt(prevPositions, c) > bound
    /\ ReadAt(prevVelocities, c) = SCALE

\* The velocity <<vx, vy>> of particle 0 in the last tick after forcing and
\* damping, before the boundary condition.
DampedVelocity ==
    IF isAudioActive
    THEN ActiveVelocity(ReadAt(prevPositions, 0), ReadAt(prevPositions, 1),
                        ReadAt(prevVelocities, 0), ReadAt(prevVelocities, 1),
                        audioLevel, randomAngle[1])
    ELSE IdleVelocity(ReadAt(prevVelocities, 0), ReadAt(prevVelocities, 1))

MaxIncrement == (4 * 200 * 3 * randomness) \div SCALE

\* C10 as stated: whatever level the audio collaborator returns (very large
\* or non-finite ones included), a tick adds at most MaxIncrement to a
\* velocity component and leaves only finite values in the particle store.
C10_AudioLevelSanitized ==
    op = "animate" =>
        /\ \A k \in 1..Len(positions) : IsFinite(positions[k])
        /\ \A k \in 1..Len(particleVelocities) :
               /\ IsFinite(particleVelocities[k])
               /\ Abs(particleVelocities[k]) <= Abs(prevVelocities[k]) + MaxIncrement

\* Whether particle i of the store has a non-finite coordinate or velocity.
Broken(i) ==
    /\ i < CountOf(positions, 3)
    /\ \E c \in 0..1 :
         ~IsFinite(ReadAt(positions, i * 3 + c)) \/ ~IsFinite(ReadAt(particleVelocities, i * 2 + c))

\* C11 as stated: a particle with a non-finite position or velocity
\* component has only finite components again after finitely many further
\* ticks, with or without sound.
C11_NonFiniteHeals ==
    \A i \in 0..(MaxParticles - 1) : Broken(i) ~> ~Broken(i)

\* C12 as stated: a particle-count change to a target <= 0 completes
\* without an error and leaves a store of exactly one particle, which the
\* following ticks integrate.
C12_DegenerateResizeClamped ==
    /\ (op \in {"createParticles", "RangeError"} /\ PARAMS.particles <= 0) =>
           /\ op = "createParticles"
           /\ Len(positions) = 3
           /\ Len(particleVelocities) = 2
    /\ op = "animate" =>
           (PARAMS.particles >= 1 /\ Len(positions) = 3 * PARAMS.particles)

\* C13: at all times exactly one animate() call is pending, and the loop
\* never stops: ticks keep running (the parity of their number keeps
\* changing) whatever audio switches, panel changes and resizes come between.
C13_LoopPerpetual ==
    /\ [](pendingFrames = 1)
    /\ []<>(frame = 0)
    /\ []<>(frame = 1)

\* C13 witness: ticks ran after audio was switched on and off and the store
\* was resized, and one tick is pending again.
C13_Witness ==
    /\ op = "animate"
    /\ frame = 0
    /\ pendingFrames = 1
    /\ created > 1
    /\ synth /\ ~audioEnabled

\* C14: after any sequence of particle-count changes, failed ones included,
\* the scene holds exactly the particle object of the current store, every
\* object replaced before has been disposed, and the current one has not.
C14_ScopedRelease ==
    /\ scene = {particlesId}
    /\ disposed = (1..created) \ {particlesId}
    /\ particlesId \notin disposed

\* C14 witness: a resize failed with an exception after another had replaced
\* the first store.
C14_Witness ==
    /\ op = "RangeError"
    /\ created > 1
    /\ scene = {particlesId}
    /\ disposed = 1..(created - 1)

\* Whether m, n, a, b are in the documented ranges: mode numbers in
\* [1, 15], amplitude coefficients in [-2, 2].
InRange(m, n, a, b) ==
    /\ m \in 1..15 /\ n \in 1..15
    /\ a >= -2 * SCALE /\ a <= 2 * SCALE
    /\ b >= -2 * SCALE /\ b <= 2 * SCALE

\* C15: after any sequence of panel changes and key-down and key-up events
\* PARAMS.m and PARAMS.n are integers in [1, 15] and PARAMS.patternMixX and
\* PARAMS.patternMixY are in [-2, 2]; every pattern of the static table is.
C15_PatternInRange ==
    /\ InRange(PARAMS.m, PARAMS.n, PARAMS.patternMixX, PARAMS.patternMixY)
    /\ \A k \in DOMAIN baseKeyPatternMap :
           \A i \in 1..Len(baseKeyPatternMap[k]) :
               InRange(baseKeyPatternMap[k][i].m, baseKeyPatternMap[k][i].n,
                       baseKeyPatternMap[k][i].a, baseKeyPatternMap[k][i].b)

\* C15 witness: the panel set m to the end of its range, the space bar took
\* the panel's pattern, and then key A selected its own.
C15_Witness ==
    /\ op = "keydown" /\ lastKey = "A"
    /\ PARAMS.m = 1 /\ PARAMS.n = 9
    /\ PARAMS.patternMixX = 2 * SCALE /\ PARAMS.patternMixY = -2 * SCALE
    /\ \E i \in 1..Len(prevKeysStack) :
           prevKeysStack[i].key = "SPACE" /\ prevKeysStack[i].pattern.m = 15

\* The pattern the panel shows.
Shown == [m |-> PARAMS.m, n |-> PARAMS.n, a |-> PARAMS.patternMixX, b |-> PARAMS.patternMixY]

\* C19 as stated: while keys are held, and without panel edits, the pattern
\* parameters equal the pattern stored with the most recently pressed key
\* that is still held.
C19_PatternFollowsHeldKeys ==
    (audioEnabled /\ Len(activeKeysStack) > 0) =>
        Shown = activeKeysStack[Len(activeKeysStack)].pattern

\* C20: a key-up for a held key removes it from the stack and keeps the
\* others in order; with keys left the synth sounds the stored frequency of
\* the last of them and its pattern is returned, with none left the synth
\* is released and null is returned.  A key-up for a key that is not held
\* changes neither the stack nor the note and returns null.
C20_ReleaseFallsBack ==
    (op = "keyup" /\ audioEnabled) =>
        LET i == FindIndex(prevKeysStack, lastKey)
            left == Len(prevKeysStack) - 1
        IN  IF i = 0
            THEN /\ activeKeysStack = prevKeysStack
                 /\ synthNote = prevNote
                 /\ returned = << >>
            ELSE /\ Len(activeKeysStack) = left
                 /\ \A j \in 1..left :
                        activeKeysStack[j] = prevKeysStack[IF j < i THEN j ELSE j + 1]
                 /\ IF left > 0
                    THEN /\ synthNote = activeKeysStack[left].frequency
                         /\ returned = <<activeKeysStack[left].pattern>>
                    ELSE /\ synthNote = 0
                         /\ returned = << >>

\* C20 witness: of three held keys the one pressed second was released, and
\* the synth went back to the key pressed last.
C20_Witness ==
    /\ op = "keyup" /\ audioEnabled
    /\ Len(prevKeysStack) = 3
    /\ FindIndex(prevKeysStack, lastKey) = 2
    /\ Len(activeKeysStack) = 2
    /\ activeKeysStack[2] = prevKeysStack[3]
    /\ synthNote = prevKeysStack[3].frequency
    /\ returned = <<prevKeysStack[3].pattern>>

\* 55 * 55 * (m*m + n*n) * (a*a + b*b): the square of the frequency in Hz
\* before it is clamped, for the call's arguments.
FreqSquared ==
    55 * 55 * (callArgs[1] * callArgs[1] + callArgs[2] * callArgs[2])
       * ((callArgs[3] \div SCALE) * (callArgs[3] \div SCALE)
          + (callArgs[4] \div SCALE) * (callArgs[4] \div SCALE))

\* C16: for m, n in [1, 15] and a, b in [-2, 2] calculateFrequency returns
\* 55 * sqrt(m*m + n*n) * sqrt(a*a + b*b) clamped to [20, 2000] (compared
\* here to within 1 Hz), which is 20 for (1, 1, 0, 0) and 2000 for
\* (15, 15, 2, 2), and calculateFrequencyFromPattern returns the same.
C16_FrequencyClamped ==
    op = "calculateFrequency" =>
        LET f == callResult[1]
            hz == f \div SCALE
        IN  /\ f >= 20 * SCALE /\ f <= 2000 * SCALE
            /\ callResult[2] = f
            /\ FreqSquared <= 20 * 20 => f = 20 * SCALE
            /\ FreqSquared >= 2000 * 2000 => f = 2000 * SCALE
            /\ (FreqSquared > 20 * 20 /\ FreqSquared < 2000 * 2000) =>
                   (hz * hz <= FreqSquared /\ FreqSquared <= (hz + 2) * (hz + 2))
            /\ callArgs = <<1, 1, 0, 0>> => f = 20 * SCALE
            /\ callArgs = <<15, 15, 2 * SCALE, 2 * SCALE>> => f = 2000 * SCALE

\* C16 witness: a frequency strictly between the limits, the same from
\* both functions.
C16_Witness ==
    /\ op = "calculateFrequency"
    /\ callArgs = <<3, 2, SCALE, SCALE>>
    /\ callResult[1] > 280 * SCALE /\ callResult[1] < 281 * SCALE
    /\ callResult[2] = callResult[1]

\* |a| + |b| for the panel's amplitude coefficients
MixBound == FAdd(FAbs(PARAMS.patternMixX), FAbs(PARAMS.patternMixY))

\* C17: for m, n in [1, 15], a, b in [-2, 2] and x, y in [-1, 1] the field
\* value lies in [-(|a|+|b|), |a|+|b|], and the force of an active tick is
\* at most (|a|+|b|) * vibrationStrength * (1 + 2 * audioLevel) in magnitude.
C17_FieldBounded ==
    op = "chladni" =>
        /\ FAbs(callResult[1]) <= MixBound
        /\ FAbs(callResult[2]) <=
               FMul(FMul(MixBound, PARAMS.vibrationStrength),
                    FAdd(SCALE, FMul(callArgs[3], 2 * SCALE)))

\* C17 witness: at the centre of the plate with m = n = 1 and a = b = 2
\* the field reaches |a| + |b| = 4 and the force its bound.
C17_Witness ==
    /\ op = "chladni"
    /\ callArgs[1] = 0 /\ callArgs[2] = 0 /\ callArgs[3] = 500
    /\ PARAMS.m = 1 /\ PARAMS.n = 1
    /\ callResult[1] = 4 * SCALE
    /\ callResult[2] = FMul(FMul(4 * SCALE, PARAMS.vibrationStrength), 2 * SCALE)
    /\ callResult[2] > 0

\* C18: a tick updates every particle with the pattern parameters and the
\* vibration strength as the callbacks before the tick left them, and with
\* the one audio level and the one audio-active flag sampled at its start.
C18_OneSnapshotPerTick ==
    op = "animate" =>
        \A i \in Particles :
            ParticleOf(positions, particleVelocities, i)
                = StepParticle(ReadAt(prevPositions, i * 3), ReadAt(prevPositions, i * 3 + 1),
                               ReadAt(prevVelocities, i * 2), ReadAt(prevVelocities, i * 2 + 1),
                               audioLevel, isAudioActive,
                               IF isAudioActive THEN randomAngle[i + 1] ELSE 0)

\* C18 witness: after the panel changed the pattern and the vibration
\* strength, a tick with sound pushed both particles.
C18_Witness ==
    /\ op = "animate"
    /\ isAudioActive
    /\ CountOf(positions, 3) = 2
    /\ PARAMS.m # InitialPARAMS.m
    /\ PARAMS.vibrationStrength # InitialPARAMS.vibrationStrength
    /\ \A i \in Particles : SpeedSq(particleVelocities, i) > 0

\* C21: the key stack is empty whenever the audio is disabled, and while it
\* is enabled the synth sounds a note exactly when the key stack is not
\* empty.
C21_NoteMatchesStack ==
    /\ ~audioEnabled => activeKeysStack = << >>
    /\ audioEnabled => (synthNote # 0 <=> activeKeysStack # << >>)

\* C21 witness: the audio was stopped with keys held and is off, silent and
\* without keys.
C21_Witness ==
    /\ op = "click"
    /\ ~audioEnabled /\ synth
    /\ Len(prevKeysStack) >= 2 /\ prevNote # 0
    /\ activeKeysStack = << >> /\ synthNote = 0

\* C24 as stated: once no audio start is pending the audio is enabled
\* exactly when PARAMS.isPlaying is true.
C24_ButtonMatchesEngine ==
    pendingStarts = {} => (audioEnabled <=> PARAMS.isPlaying)

\* C23: audioEnabled implies that synth, filter, delay, reverb and analyzer
\* exist and are not disposed.
C23_EnabledWithFullChain ==
    audioEnabled => (synth /\ effects /\ analyzer)

\* C23 witness: the audio was stopped, which disposed the effects, and
\* started again.
C23_Witness ==
    /\ op = "click"
    /\ clicks >= 3
    /\ audioEnabled /\ PARAMS.isPlaying
    /\ synth /\ effects /\ analyzer

\* Whether a key-down found its key on the stack.
AlreadyHeld == \E i \in 1..Len(prevKeysStack) : prevKeysStack[i].key = lastKey

\* C22: activeKeysStack never holds two entries with the same key; a
\* key-down for a key that is already on the stack, an auto-repeat, an
\* unmapped key or any key while the audio is disabled returns null, leaves
\* the stack unchanged and does not trigger the synth (the space bar's
\* handler retunes a sounding note to the panel's frequency beforehand).
C22_KeyHeldOnce ==
    /\ \A i, j \in 1..Len(activeKeysStack) :
           activeKeysStack[i].key = activeKeysStack[j].key => i = j
    /\ (/\ op \in {"keydown", "keydown repeat"}
        /\ \/ AlreadyHeld
           \/ op = "keydown repeat"
           \/ lastKey \notin DOMAIN baseKeyPatternMap
           \/ ~audioEnabled) =>
           /\ returned = << >>
           /\ activeKeysStack = prevKeysStack
           /\ \/ synthNote = prevNote
              \/ /\ lastKey = "SPACE" /\ op = "keydown" /\ audioEnabled /\ prevNote # 0
                 /\ synthNote = calculateFrequency(PARAMS.m, PARAMS.n, PARAMS.patternMixX,
                                                   PARAMS.patternMixY)

\* C22 witness: a second key-down, not an auto-repeat, for a key held below
\* another one changed nothing.
C22_Witness ==
    /\ op = "keydown" /\ audioEnabled
    /\ lastKey = "A"
    /\ Len(prevKeysStack) = 2 /\ prevKeysStack[1].key = "A"
    /\ activeKeysStack = prevKeysStack
    /\ returned = << >>
    /\ synthNote = prevKeysStack[2].frequency

\* The automatic note's release timer is armed while the note is held.
AutoNoteTimed ==
    (autoNote.owner # 0 /\ IsActive(activeKeysStack, "SPACE")) => timers # << >>

\* A timer that fires with the audio stopped changes neither stack nor note.
TimerAfterStopIdle ==
    (op = "releaseTimer" /\ ~audioEnabled) =>
        (activeKeysStack = prevKeysStack /\ synthNote = prevNote)

\* A timer releases only the note of the click that armed it.
TimerReleasesOwnNote ==
    (op = "releaseTimer" /\ autoNote.released # 0) => autoNote.released = autoNote.fired

\* The automatic note does not stay: held keys lead to an empty stack and a
\* released synth.
AutoNoteEnds ==
    (activeKeysStack # << >>) ~> (activeKeysStack = << >> /\ synthNote = 0)

\* C25 as stated: the automatic SPACE note comes with its release timer;
\* with no further key the stack becomes empty again and the synth is
\* released; a timer firing after the audio was stopped changes no state;
\* a timer armed by an earlier toggle never releases the note of a later one.
C25_AutoNoteReleased ==
    /\ [](AutoNoteTimed /\ TimerAfterStopIdle /\ TimerReleasesOwnNote)
    /\ AutoNoteEnds

====
